---- MODULE Spec2Model ----
(***************************************************************************)
(* A model of rash (src/src/rash.c): a string-keyed hash table with open   *)
(* addressing, Robin Hood displacement, a probe window of max_size_shift   *)
(* slots, back-shift deletion and resize by one power of two.              *)
(*                                                                         *)
(* Every function of rash.c is an operator of the same name.  A function   *)
(* that mutates the table takes and returns a context record c holding     *)
(* the fields of struct hash_table, the number of allocation requests made *)
(* so far in the public call, and the function's return value.             *)
(***************************************************************************)
EXTENDS Integers, Sequences, FiniteSets, TLC

----------------------------------------------------------------------------
(* size_t arithmetic.  size_t is 64 bits wide (SIZE_MAX >> 63 is 1, so the *)
(* 64-bit multiplier is selected); a size_t is a sequence of eight bytes,  *)
(* least significant first, and every operation wraps modulo 2^64.         *)

\* sizeof(size_t)
WordBytes == 8

RECURSIVE Norm(_, _, _)
\* carry propagation: digits holds unnormalised byte sums, i is the byte in hand
Norm(digits, i, carry) ==
  IF i > WordBytes THEN << >>
  ELSE LET v == digits[i] + carry
       IN  << v % 256 >> \o Norm(digits, i + 1, v \div 256)

Word(n) == Norm([i \in 1..WordBytes |-> IF i = 1 THEN n ELSE 0], 1, 0)

Add64(a, b) == Norm([i \in 1..WordBytes |-> a[i] + b[i]], 1, 0)

\* a << 5 on a size_t
Shl5(a) == Norm([i \in 1..WordBytes |-> a[i] * 32], 1, 0)

RECURSIVE ColumnSum(_, _, _, _)
\* sum of a[j] * b[i + 1 - j] for j in 1..j
ColumnSum(a, b, i, j) ==
  IF j = 0 THEN 0 ELSE a[j] * b[i + 1 - j] + ColumnSum(a, b, i, j - 1)

Mul64(a, b) == Norm([i \in 1..WordBytes |-> ColumnSum(a, b, i, i)], 1, 0)

\* w >> n as an integer, for the shift amounts that leave at most 24 bits
Shr64(w, n) == (w[8] * 65536 + w[7] * 256 + w[6]) \div (2 ^ (n - 40))

\* 11400714819323198485 = 0x9E3779B97F4A7C15
FIBONACCI_MULTIPLIER == << 21, 124, 74, 127, 185, 121, 55, 158 >>

\* a faulty variant: the shift amount is one too small, which leaves
\* bits + 1 bits of the product
fibonacci_hash_wide(hash, bits) ==
  LET shift_amount == (WordBytes * 8) - bits - 1
  IN  Shr64(Mul64(hash, FIBONACCI_MULTIPLIER), shift_amount)

fibonacci_hash(hash, bits) ==
  LET shift_amount == (WordBytes * 8) - bits
  IN  Shr64(Mul64(hash, FIBONACCI_MULTIPLIER), shift_amount)

\* uint8_t arithmetic
U8(n) == n % 256

RECURSIVE djb2_loop(_, _, _)
djb2_loop(str, i, hash) ==
  IF i > Len(str) THEN hash
  ELSE djb2_loop(str, i + 1, Add64(Add64(Shl5(hash), hash), Word(str[i])))

\* str is the key's bytes before the terminating zero
djb2_hash(str) == djb2_loop(str, 1, Word(5381))


----------------------------------------------------------------------------
(* The keys the callers use, as the bytes before the terminating zero.     *)
(* CollidingKeys are "db" "sg" "vr" "rf" "hn" "kd", whose home bucket is 0 *)
(* while max_size_shift is 4 or 5 and which part at 6, and "ou", whose     *)
(* home bucket is 1, then 3.  TestKeys are "key_0" .. "key_12", the first  *)
(* keys of hash_table_tests_add_many; their home buckets are distinct.     *)
(* EdgeKeys are "ca" "gm" "no" "ky" "dw", whose home bucket is the last    *)
(* one, max_size - 1, while max_size_shift is 4, 5 or 6, so that they      *)
(* probe into the max_size_shift buckets behind max_size.                  *)

CollidingKeys ==
  << <<100, 98>>, <<115, 103>>, <<118, 114>>, <<114, 102>>, <<104, 110>>,
     <<107, 100>>, <<111, 117>> >>

\* snprintf(key, sizeof(key), "key_%zu", i)
TestKey(i) ==
  << 107, 101, 121, 95 >> \o
  (IF i < 10 THEN << 48 + i >> ELSE << 48 + (i \div 10), 48 + (i % 10) >>)

TestKeys == [i \in 1..13 |-> TestKey(i - 1)]

EdgeKeys ==
  << <<99, 97>>, <<103, 109>>, <<110, 111>>, <<107, 121>>, <<100, 119>> >>

KeyUniverse == CollidingKeys \o TestKeys \o EdgeKeys

Keys == { KeyUniverse[i] : i \in 1..Len(KeyUniverse) }

\* the widest table these keys can drive the code to has max_size_shift 7;
\* the tables below hold the hashes up to one step beyond
Shifts == 1..8

\* djb2_hash and fibonacci_hash on the keys and shifts in use, computed once
djb2_table == [key \in Keys |-> djb2_hash(key)]

fibonacci_table ==
  [hash \in { djb2_table[key] : key \in Keys } |->
    [bits \in Shifts |-> fibonacci_hash(hash, bits)]]

----------------------------------------------------------------------------
(* Memory.  A pointer to a struct hash_table_entry is the entry itself,    *)
(* tagged with an address addr while a public call runs, or NULL.  The     *)
(* code compares entry pointers only for equality (rash.c:364), so the     *)
(* addresses are kept up to renaming: Load names every resident entry by   *)
(* the slot it occupies when the call begins, the entry the call creates   *)
(* gets NEW_ADDR, and Store forgets the names when the call returns.       *)
(* Reading or writing table->buckets[position] for a position outside the  *)
(* array is undefined behaviour: the walks of the model end there, the     *)
(* call that would make the access records it in outside and returns, and  *)
(* nothing is said about what it leaves behind.                            *)

NULL == [null |-> TRUE]

NEW_ADDR == 0

HASH_TABLE_INITIAL_SHIFT == 4

HASH_TABLE_RESIZE_INCREMENT == 1

\* 0.75f is 3 / 4 exactly
LOAD_FACTOR_INCREASE_NUM == 3

LOAD_FACTOR_INCREASE_DEN == 4

\* 0.10f is the float 0x3DCCCCCD = 13421773 / 2^27
LOAD_FACTOR_DECREASE_NUM == 13421773

LOAD_FACTOR_DECREASE_DEN == 134217728

\* the slots of an array allocated for max_size buckets and a tail
Slots(max_size, max_size_shift) == 0 .. (max_size + max_size_shift - 1)

\* the n-th allocation request of a public call succeeds unless n is in fails
AllocSucceeds(c, fails) == (c.allocs + 1) \notin fails

CountAlloc(c) == [c EXCEPT !.allocs = @ + 1]

hash_table_is_next_found(c, probe_count) == probe_count < c.max_size_shift

hash_table_get_position(c, key) ==
  fibonacci_table[djb2_table[key]][c.max_size_shift]

\* a faulty variant: the comparison is the wrong way round
hash_table_should_replace_entry_less(entry1, entry2) ==
  entry1.dist_from_des < entry2.dist_from_des

hash_table_should_replace_entry(entry1, entry2) ==
  entry1.dist_from_des > entry2.dist_from_des

RECURSIVE HASH_TABLE_ITERATE_TO_NEXT(_, _, _, _)
\* the macro with an empty body, as hash_table_get and hash_table_remove use it
HASH_TABLE_ITERATE_TO_NEXT(c, key_value, position, probe_count) ==
  IF /\ probe_count < c.max_size_shift
     /\ position \in DOMAIN c.buckets
     /\ c.buckets[position] # NULL
     /\ c.buckets[position].key # key_value
  THEN HASH_TABLE_ITERATE_TO_NEXT(c, key_value, position + 1,
                                  U8(probe_count + 1))
  ELSE [position |-> position, probe_count |-> probe_count]

\* a faulty variant of the back-shift loop: it moves nothing, so the slot of
\* a removed entry stays a hole in front of the entries that probed past it
remove_shift_none(buckets, position, end) == buckets

RECURSIVE remove_shift_nodec(_, _, _)
\* a faulty variant of the back-shift loop: it moves the entries down and
\* forgets entry->dist_from_des--
remove_shift_nodec(buckets, position, end) ==
  IF position >= end THEN buckets
  ELSE LET entry == buckets[position]
       IN  IF entry = NULL \/ entry.dist_from_des = 0 THEN buckets
           ELSE remove_shift_nodec(
                  [buckets EXCEPT ![position - 1] = entry,
                                  ![position] = NULL],
                  position + 1, end)

\* a faulty variant of the back-shift loop: an if in place of the loop, it
\* moves the entry behind the removed one and leaves the others
remove_shift_once(buckets, position, end) ==
  IF position >= end THEN buckets
  ELSE LET entry == buckets[position]
       IN  IF entry = NULL \/ entry.dist_from_des = 0 THEN buckets
           ELSE [buckets EXCEPT
                   ![position - 1] =
                      [entry EXCEPT !.dist_from_des = U8(@ - 1)],
                   ![position] = NULL]

RECURSIVE remove_shift(_, _, _)
\* the loop of hash_table_remove_from_position
remove_shift(buckets, position, end) ==
  IF position >= end THEN buckets
  ELSE LET entry == buckets[position]
       IN  IF entry = NULL \/ entry.dist_from_des = 0 THEN buckets
           ELSE remove_shift(
                  [buckets EXCEPT
                     ![position - 1] =
                        [entry EXCEPT !.dist_from_des = U8(@ - 1)],
                     ![position] = NULL],
                  position + 1, end)

\* a faulty variant: it forgets table->buckets[position] = NULL
hash_table_remove_from_position_keep(c, position) ==
  [c EXCEPT
     !.buckets = remove_shift(c.buckets, position + 1,
                              c.max_size + c.max_size_shift),
     !.curr_size = @ - 1,
     !.ret = TRUE]

\* the loop reads up to the bucket max_size + max_size_shift - 1
hash_table_remove_from_position(c, position) ==
  [c EXCEPT
     !.buckets = remove_shift([c.buckets EXCEPT ![position] = NULL],
                              position + 1,
                              c.max_size + c.max_size_shift),
     !.curr_size = @ - 1,
     !.outside = @ \/ (c.max_size + c.max_size_shift - 1)
                         \notin DOMAIN c.buckets,
     !.ret = TRUE]

RECURSIVE unwind_loop_late(_, _, _, _)
\* a faulty variant of the unwinding loop: poor->dist_from_des-- comes after
\* the comparison instead of before it
unwind_loop_late(buckets, inserted, poor, i) ==
  LET current == buckets[i]
  IN  IF current = NULL
      THEN [buckets |-> buckets, poor |-> poor, stray |-> TRUE]
      ELSE LET swap == hash_table_should_replace_entry(current, poor)
               b1   == IF swap THEN [buckets EXCEPT ![i] = poor]
                               ELSE buckets
               p1   == IF swap THEN current ELSE poor
               p2   == [p1 EXCEPT !.dist_from_des = U8(@ - 1)]
           IN  IF p2.addr = inserted.addr \/ i = 0
               THEN [buckets |-> b1, poor |-> p2,
                     stray |-> p2.addr # inserted.addr]
               ELSE unwind_loop_late(b1, inserted, p2, i - 1)

RECURSIVE unwind_loop(_, _, _, _)
\* the loop of hash_table_unwind_insertion_changes; stray reports that the
\* loop dereferenced an empty slot or stopped at index 0 with a carrying
\* entry that is not the inserted one
unwind_loop(buckets, inserted, poor, i) ==
  LET current == buckets[i]
      poorer  == [poor EXCEPT !.dist_from_des = U8(@ - 1)]
  IN  IF current = NULL
      THEN [buckets |-> buckets, poor |-> poorer, stray |-> TRUE]
      ELSE LET swap == hash_table_should_replace_entry(current, poorer)
               b1   == IF swap THEN [buckets EXCEPT ![i] = poorer]
                               ELSE buckets
               p1   == IF swap THEN current ELSE poorer
           IN  IF p1.addr = inserted.addr \/ i = 0
               THEN [buckets |-> b1, poor |-> p1,
                     stray |-> p1.addr # inserted.addr]
               ELSE unwind_loop(b1, inserted, p1, i - 1)

\* a faulty variant: the swaps of the failed walk are left as they are
hash_table_unwind_insertion_changes_none(c, inserted, original, unwind_start_position) ==
  [buckets |-> c.buckets, poor |-> inserted, stray |-> FALSE]

hash_table_unwind_insertion_changes(c, inserted, original, unwind_start_position) ==
  unwind_loop(c.buckets, inserted, original, unwind_start_position)

RECURSIVE insert_walk_anykey(_, _, _, _, _)
\* a faulty variant: the walk does not stop at a bucket with the same key
insert_walk_anykey(c, entry, rich, position, probe_count) ==
  IF /\ probe_count < c.max_size_shift
     /\ position \in DOMAIN c.buckets
     /\ c.buckets[position] # NULL
  THEN LET current == c.buckets[position]
           swap    == hash_table_should_replace_entry(rich, current)
           c1      == IF swap THEN [c EXCEPT !.buckets[position] = rich]
                              ELSE c
           r1      == IF swap THEN current ELSE rich
       IN  insert_walk_anykey(c1, entry,
                              [r1 EXCEPT !.dist_from_des = U8(@ + 1)],
                              position + 1, U8(probe_count + 1))
  ELSE [c |-> c, rich |-> rich, position |-> position,
        probe_count |-> probe_count]

RECURSIVE insert_walk(_, _, _, _, _)
\* the loop of hash_table_insert: HASH_TABLE_ITERATE_TO_NEXT with its body
insert_walk(c, entry, rich, position, probe_count) ==
  IF /\ probe_count < c.max_size_shift
     /\ position \in DOMAIN c.buckets
     /\ c.buckets[position] # NULL
     /\ c.buckets[position].key # entry.key
  THEN LET current == c.buckets[position]
           swap    == hash_table_should_replace_entry(rich, current)
           c1      == IF swap THEN [c EXCEPT !.buckets[position] = rich]
                              ELSE c
           r1      == IF swap THEN current ELSE rich
       IN  insert_walk(c1, entry,
                       [r1 EXCEPT !.dist_from_des = U8(@ + 1)],
                       position + 1, U8(probe_count + 1))
  ELSE [c |-> c, rich |-> rich, position |-> position,
        probe_count |-> probe_count]

\* a faulty variant: it compares curr_size, not curr_size + 1
hash_table_should_resize_up_factor_late(c) ==
  c.curr_size * LOAD_FACTOR_INCREASE_DEN
     > c.max_size * LOAD_FACTOR_INCREASE_NUM

hash_table_should_resize_up_factor(c) ==
  (c.curr_size + 1) * LOAD_FACTOR_INCREASE_DEN
     > c.max_size * LOAD_FACTOR_INCREASE_NUM

\* a faulty variant: it forgets the check against HASH_TABLE_INITIAL_SHIFT
hash_table_should_resize_down_factor_nofloor(c) ==
  IF c.curr_size = 0 THEN FALSE
  ELSE c.curr_size - 1
         <= (c.max_size * LOAD_FACTOR_DECREASE_NUM - 1)
              \div LOAD_FACTOR_DECREASE_DEN

\* curr_size - 1 is a size_t: for curr_size = 0 it is SIZE_MAX, which as a
\* float is 2^64 and not below any max_size * 0.10f; otherwise
\* n < m * NUM / DEN  iff  n <= (m * NUM - 1) div DEN
hash_table_should_resize_down_factor(c) ==
  IF c.max_size_shift <= HASH_TABLE_INITIAL_SHIFT THEN FALSE
  ELSE IF c.curr_size = 0 THEN FALSE
  ELSE c.curr_size - 1
         <= (c.max_size * LOAD_FACTOR_DECREASE_NUM - 1)
              \div LOAD_FACTOR_DECREASE_DEN

RECURSIVE hash_table_insert(_, _, _)
RECURSIVE hash_table_rehash_from(_, _, _, _, _, _)
RECURSIVE hash_table_resize(_, _, _)
RECURSIVE insert_found(_, _, _, _)
RECURSIVE insert_overflow(_, _, _, _)
RECURSIVE insert_again(_, _, _)

\* after the unwinding u of the walk w that began on c: skewed reports that
\* the array is not the one the walk began on
insert_unwound(c, w, u) ==
  [w.c EXCEPT
     !.buckets = u.buckets,
     !.skewed = @ \/ u.buckets # c.buckets,
     !.outside = @ \/ (w.position - 1) \notin DOMAIN c.buckets,
     !.overflows = @ + 1,
     !.nested = IF c.depth > 0 THEN @ + 1 ELSE @,
     !.nested_in_grow = IF c.depth > 0 /\ c.growing THEN @ + 1 ELSE @,
     !.stray = @ \/ u.stray]

\* a faulty variant: after the resize the insertion is not tried again
insert_again_never(u, c2, fails) == [c2 EXCEPT !.ret = FALSE]

\* after the resize c2: give up, or insert the original entry again;
\* regrown counts the resizes after which a walk of the call itself, and not
\* of a rehash, begins again
insert_again(u, c2, fails) ==
  IF ~c2.ret THEN c2
  ELSE hash_table_insert(
         [c2 EXCEPT !.regrown = IF c2.depth = 0 THEN @ + 1 ELSE @],
         [u.poor EXCEPT !.dist_from_des = 0], fails)

\* a faulty variant: the grow is by two steps instead of one
insert_overflow_double(c, w, u, fails) ==
  IF u.stray THEN [insert_unwound(c, w, u) EXCEPT !.ret = FALSE]
  ELSE insert_again(u,
                    hash_table_resize(insert_unwound(c, w, u),
                                      2 * HASH_TABLE_RESIZE_INCREMENT, fails),
                    fails)

\* the window is exhausted: u is the unwinding, then the table grows
insert_overflow(c, w, u, fails) ==
  IF u.stray THEN [insert_unwound(c, w, u) EXCEPT !.ret = FALSE]
  ELSE insert_again(u,
                    hash_table_resize(insert_unwound(c, w, u),
                                      HASH_TABLE_RESIZE_INCREMENT, fails),
                    fails)

\* a faulty variant: curr_size++ also when the slot found holds the key
insert_found_counts(c, entry, w, fails) ==
  IF hash_table_is_next_found(w.c, w.probe_count)
  THEN [w.c EXCEPT
          !.curr_size = @ + 1,
          !.buckets[w.position] = w.rich,
          !.ret = TRUE]
  ELSE insert_overflow(c, w,
                       hash_table_unwind_insertion_changes(
                         w.c, entry, w.rich, w.position - 1),
                       fails)

\* the bucket a walk stopped at before the end of its window is read, and
\* written by hash_table_insert
available(c, position) ==
  IF position \in DOMAIN c.buckets THEN c
  ELSE [c EXCEPT !.outside = TRUE, !.ret = FALSE]

\* after the loop w of hash_table_insert
insert_found(c, entry, w, fails) ==
  IF hash_table_is_next_found(w.c, w.probe_count)
  THEN IF available(w.c, w.position).outside
       THEN available(w.c, w.position)
       ELSE [w.c EXCEPT
               !.curr_size =
                  IF w.c.buckets[w.position] # NULL THEN @ ELSE @ + 1,
               !.buckets[w.position] = w.rich,
               !.ret = TRUE]
  ELSE insert_overflow(c, w,
                       hash_table_unwind_insertion_changes(
                         w.c, entry, w.rich, w.position - 1),
                       fails)

\* walks counts the walks of the call itself, and not of a rehash
insert_begun(c) == [c EXCEPT !.walks = IF c.depth = 0 THEN @ + 1 ELSE @]

hash_table_insert(c, entry, fails) ==
  insert_found(insert_begun(c), entry,
               insert_walk(insert_begun(c), entry, entry,
                           fibonacci_table[entry.hash][c.max_size_shift], 0),
               fails)

\* hash_table_rehash discards the result c1 of hash_table_insert
rehash_discard(c, c1) ==
  [c1 EXCEPT !.depth = c.depth, !.lost = IF c1.ret THEN @ ELSE @ + 1]

\* the first bucket from i on that contains something, or the end of the
\* array: the loop of hash_table_rehash does nothing at an empty bucket
rehash_skip(old_buckets, i, end) ==
  IF \A j \in i..(end - 1) : old_buckets[j] = NULL THEN end
  ELSE CHOOSE j \in i..(end - 1) :
         /\ old_buckets[j] # NULL
         /\ \A k \in i..(j - 1) : old_buckets[k] = NULL

RECURSIVE rehash_entry(_, _, _, _, _, _)
\* the loop of hash_table_rehash, from bucket i on
hash_table_rehash_from(c, old_buckets, old_max_size, old_max_size_shift, i, fails) ==
  rehash_entry(c, old_buckets, old_max_size, old_max_size_shift,
               rehash_skip(old_buckets, i, old_max_size + old_max_size_shift),
               fails)

\* a faulty variant: it forgets entry->dist_from_des = 0
rehash_entry_stale(c, old_buckets, old_max_size, old_max_size_shift, i, fails) ==
  IF i >= old_max_size + old_max_size_shift THEN c
  ELSE hash_table_rehash_from(
         rehash_discard(
           c, hash_table_insert([c EXCEPT !.depth = @ + 1], old_buckets[i],
                                fails)),
         old_buckets, old_max_size, old_max_size_shift, i + 1, fails)

\* the body of the loop at the bucket i, which contains something, and the
\* rest of the loop
rehash_entry(c, old_buckets, old_max_size, old_max_size_shift, i, fails) ==
  IF i >= old_max_size + old_max_size_shift THEN c
  ELSE hash_table_rehash_from(
         rehash_discard(
           c, hash_table_insert(
                [c EXCEPT !.depth = @ + 1],
                [old_buckets[i] EXCEPT !.dist_from_des = 0], fails)),
         old_buckets, old_max_size, old_max_size_shift, i + 1, fails)

hash_table_rehash(c, old_buckets, old_max_size, old_max_size_shift, fails) ==
  hash_table_rehash_from(c, old_buckets, old_max_size, old_max_size_shift,
                         0, fails)

hash_table_buckets_alloc(c, fails) ==
  IF AllocSucceeds(c, fails)
  THEN [i \in Slots(c.max_size, c.max_size_shift) |-> NULL]
  ELSE NULL

\* a faulty variant: when the allocation fails, max_size and max_size_shift
\* are not put back
hash_table_resize_norestore(c, shift_amount, fails) ==
  LET old_max_size       == c.max_size
      old_max_size_shift == c.max_size_shift
      c1 == [c EXCEPT
               !.max_size_shift = U8(@ + shift_amount),
               !.max_size = IF shift_amount >= 0
                            THEN @ * (2 ^ shift_amount)
                            ELSE @ \div (2 ^ (-1 * shift_amount))]
      new_buckets == hash_table_buckets_alloc(c1, fails)
      c2 == CountAlloc(c1)
  IN  IF new_buckets = NULL
      THEN [c2 EXCEPT !.ret = FALSE]
      ELSE LET old_buckets == c.buckets
               c3 == [c2 EXCEPT !.buckets = new_buckets, !.curr_size = 0,
                                !.growing = shift_amount > 0]
               c4 == hash_table_rehash(c3, old_buckets, old_max_size,
                                       old_max_size_shift, fails)
           IN  [c4 EXCEPT
                  !.ret = TRUE,
                  !.growing = c.growing,
                  !.misstepped =
                     IF c4.max_size_shift
                          = U8(old_max_size_shift + shift_amount)
                     THEN @ ELSE @ + 1]

\* the loop of hash_table_rehash reads the buckets of the old array up to
\* old_max_size + old_max_size_shift - 1
hash_table_resize(c, shift_amount, fails) ==
  LET old_max_size       == c.max_size
      old_max_size_shift == c.max_size_shift
      c1 == [c EXCEPT
               !.max_size_shift = U8(@ + shift_amount),
               !.max_size = IF shift_amount >= 0
                            THEN @ * (2 ^ shift_amount)
                            ELSE @ \div (2 ^ (-1 * shift_amount))]
      new_buckets == hash_table_buckets_alloc(c1, fails)
      c2 == CountAlloc(c1)
  IN  IF new_buckets = NULL
      THEN [c2 EXCEPT !.max_size = old_max_size,
                      !.max_size_shift = old_max_size_shift,
                      !.ret = FALSE]
      ELSE LET old_buckets == c.buckets
               c3 == [c2 EXCEPT
                        !.buckets = new_buckets, !.curr_size = 0,
                        !.growing = shift_amount > 0,
                        !.outside =
                           @ \/ (old_max_size + old_max_size_shift - 1)
                                   \notin DOMAIN old_buckets]
               c4 == hash_table_rehash(c3, old_buckets, old_max_size,
                                       old_max_size_shift, fails)
           IN  [c4 EXCEPT
                  !.ret = TRUE,
                  !.growing = c.growing,
                  !.misstepped =
                     IF c4.max_size_shift
                          = U8(old_max_size_shift + shift_amount)
                     THEN @ ELSE @ + 1]

\* two requests: the entry, then the copy of the key
hash_table_entry_create(c, key, data, fails) ==
  IF ~AllocSucceeds(c, fails) THEN [c |-> CountAlloc(c), entry |-> NULL]
  ELSE LET c1 == CountAlloc(c)
       IN  IF ~AllocSucceeds(c1, fails)
           THEN [c |-> CountAlloc(c1), entry |-> NULL]
           ELSE [c |-> CountAlloc(c1),
                 entry |-> [key |-> key, hash |-> djb2_table[key],
                            data |-> data, dist_from_des |-> 0,
                            addr |-> NEW_ADDR]]

\* a faulty variant: the array is allocated without the max_size_shift
\* buckets behind max_size
hash_table_create_short ==
  [max_size_shift |-> HASH_TABLE_INITIAL_SHIFT,
   max_size       |-> 2 ^ HASH_TABLE_INITIAL_SHIFT,
   curr_size      |-> 0,
   buckets        |-> [i \in 0..(2 ^ HASH_TABLE_INITIAL_SHIFT - 1) |-> NULL]]

hash_table_create ==
  [max_size_shift |-> HASH_TABLE_INITIAL_SHIFT,
   max_size       |-> 2 ^ HASH_TABLE_INITIAL_SHIFT,
   curr_size      |-> 0,
   buckets        |-> [i \in Slots(2 ^ HASH_TABLE_INITIAL_SHIFT,
                                   HASH_TABLE_INITIAL_SHIFT) |-> NULL]]

\* the table as a public call finds it
Load(t) ==
  [max_size_shift |-> t.max_size_shift,
   max_size       |-> t.max_size,
   curr_size      |-> t.curr_size,
   buckets        |-> [i \in DOMAIN t.buckets |->
                        IF t.buckets[i] = NULL THEN NULL
                        ELSE [key |-> t.buckets[i].key,
                              hash |-> t.buckets[i].hash,
                              data |-> t.buckets[i].data,
                              dist_from_des |-> t.buckets[i].dist_from_des,
                              addr |-> i + 1]],
   allocs |-> 0, ret |-> FALSE, depth |-> 0,
   overflows |-> 0, nested |-> 0, lost |-> 0, stray |-> FALSE,
   skewed |-> FALSE, growing |-> FALSE, nested_in_grow |-> 0,
   misstepped |-> 0, walks |-> 0, regrown |-> 0, outside |-> FALSE]

\* the table as a public call leaves it
Store(c) ==
  [max_size_shift |-> c.max_size_shift,
   max_size       |-> c.max_size,
   curr_size      |-> c.curr_size,
   buckets        |-> [i \in DOMAIN c.buckets |->
                        IF c.buckets[i] = NULL THEN NULL
                        ELSE [key |-> c.buckets[i].key,
                              hash |-> c.buckets[i].hash,
                              data |-> c.buckets[i].data,
                              dist_from_des |-> c.buckets[i].dist_from_des]]]

\* hash_table_add after the load-factor resize c1
add_insert(c1, entry, fails) ==
  IF ~c1.ret THEN c1 ELSE hash_table_insert(c1, entry, fails)

\* hash_table_add after hash_table_entry_create
add_created(created, fails) ==
  IF created.entry = NULL THEN [created.c EXCEPT !.ret = FALSE]
  ELSE add_insert(
         IF hash_table_should_resize_up_factor(created.c)
         THEN hash_table_resize(created.c, HASH_TABLE_RESIZE_INCREMENT,
                                fails)
         ELSE [created.c EXCEPT !.ret = TRUE],
         created.entry, fails)

hash_table_add(t, key, data, fails) ==
  add_created(hash_table_entry_create(Load(t), key, data, fails), fails)

\* hash_table_remove after the lookup n
remove_found(c1, n) ==
  IF ~hash_table_is_next_found(c1, n.probe_count)
  THEN [c1 EXCEPT !.ret = FALSE]
  ELSE IF available(c1, n.position).outside
  THEN available(c1, n.position)
  ELSE IF c1.buckets[n.position] = NULL THEN [c1 EXCEPT !.ret = FALSE]
  ELSE hash_table_remove_from_position(c1, n.position)

\* hash_table_remove after the load-factor resize c1
remove_lookup(c1, key) ==
  IF ~c1.ret THEN c1
  ELSE remove_found(c1,
                    HASH_TABLE_ITERATE_TO_NEXT(
                      c1, key, hash_table_get_position(c1, key), 0))

remove_resize(c0, key, fails) ==
  remove_lookup(
    IF hash_table_should_resize_down_factor(c0)
    THEN hash_table_resize(c0, -HASH_TABLE_RESIZE_INCREMENT, fails)
    ELSE [c0 EXCEPT !.ret = TRUE],
    key)

hash_table_remove(t, key, fails) == remove_resize(Load(t), key, fails)

\* the payload, or 0 for the null pointer
hash_table_get(t, key) ==
  LET n == HASH_TABLE_ITERATE_TO_NEXT(
             t, key, hash_table_get_position(t, key), 0)
  IN  IF ~hash_table_is_next_found(t, n.probe_count) THEN 0
      ELSE IF n.position \notin DOMAIN t.buckets THEN 0
      ELSE LET entry == t.buckets[n.position]
           IN  IF entry # NULL THEN entry.data ELSE 0

hash_table_get_size(t) == t.curr_size

----------------------------------------------------------------------------
(* The callers.  "churn" adds and removes CollidingKeys in any order.      *)
(* "fill" is the tests' loop: it adds TestKeys in order, as                *)
(* hash_table_tests_add_many does, and once all are in it removes them in  *)
(* the same order ("drain"), as hash_table_tests_remove_many does.         *)
(* "adding" is a round trip: it adds CollidingKeys that are not in, in any *)
(* order, and from its first removal on ("removing") it only removes keys  *)
(* that are in.  "edge" adds and removes EdgeKeys in any order.  A payload  *)
(* is a non-null pointer: key number i is added    *)
(* with payload i, as the tests add key_i with numbers + i, and the first  *)
(* key also with a second payload, as hash_table_tests_add_duplicate does. *)
(* fails is the set of allocation requests of one call that return NULL,   *)
(* among the first MaxAllocs requests of the call.                         *)

MaxAllocs == 4

KeyNumber(key) == CHOOSE n \in 1..Len(KeyUniverse) : KeyUniverse[n] = key

Payloads ==
  [key \in Keys |->
     IF KeyNumber(key) = 1 THEN {1, Len(KeyUniverse) + 1}
     ELSE {KeyNumber(key)}]

\* the requests that can fail next in a call that made c.allocs requests
\* under the pattern fails: those after the last failed one
Later(fails, c) ==
  { j \in 1..MaxAllocs : j <= c.allocs /\ \A i \in fails : i < j }

RECURSIVE AddCallsFrom(_, _, _, _)
RECURSIVE AddCallsWith(_, _, _, _, _)
\* the call c under fails, and the calls in which a later request fails too
AddCallsWith(t, key, data, fails, c) ==
  { [fails |-> fails, c |-> c] }
    \cup UNION { AddCallsFrom(t, key, data, fails \cup {j}) :
                   j \in Later(fails, c) }

AddCallsFrom(t, key, data, fails) ==
  AddCallsWith(t, key, data, fails, hash_table_add(t, key, data, fails))

\* the calls add(key, data) on t, one for each failure pattern: a request
\* can fail only if the call makes it, and up to a failed request the call
\* runs as it does when that request succeeds
AddCalls(t, key, data) == AddCallsFrom(t, key, data, {})

RECURSIVE RemoveCallsFrom(_, _, _)
RECURSIVE RemoveCallsWith(_, _, _, _)
RemoveCallsWith(t, key, fails, c) ==
  { [fails |-> fails, c |-> c] }
    \cup UNION { RemoveCallsFrom(t, key, fails \cup {j}) :
                   j \in Later(fails, c) }

RemoveCallsFrom(t, key, fails) ==
  RemoveCallsWith(t, key, fails, hash_table_remove(t, key, fails))

\* the calls remove(key) on t, one for each failure pattern
RemoveCalls(t, key) == RemoveCallsFrom(t, key, {})

VARIABLES
  table,   \* the struct hash_table the caller holds
  model,   \* per key, the payload of its last successful add, or 0 when the
           \* key was never added or its last successful call was a remove
  caller   \* "churn"; the tests' loop, "fill" then "drain"; the round
           \* trip, "adding" then "removing"; or "edge"

vars == << table, model, caller >>

Init ==
  /\ table = hash_table_create
  /\ model = [key \in Keys |-> 0]
  /\ caller \in {"churn", "fill", "adding", "edge"}

ChurnKeys == { CollidingKeys[i] : i \in 1..Len(CollidingKeys) }

\* the keys the caller in hand passes
KeysOf(who) ==
  IF who \in {"fill", "drain"} THEN { TestKeys[i] : i \in 1..Len(TestKeys) }
  ELSE IF who = "edge" THEN { EdgeKeys[i] : i \in 1..Len(EdgeKeys) }
  ELSE ChurnKeys

Present == { key \in Keys : model[key] # 0 }

\* the caller's view after a call that returned c
Returned(c, key, data) ==
  /\ table' = Store(c)
  /\ model' = IF c.ret THEN [model EXCEPT ![key] = data] ELSE model

\* hash_table_add(table, key, data), under any failure pattern when faulty
Add(key, data, faulty) ==
  \E call \in IF faulty THEN AddCalls(table, key, data)
              ELSE { [fails |-> {},
                      c |-> hash_table_add(table, key, data, {})] } :
    Returned(call.c, key, data)

\* hash_table_remove(table, key) likewise
Remove(key, faulty) ==
  \E call \in IF faulty THEN RemoveCalls(table, key)
              ELSE { [fails |-> {},
                      c |-> hash_table_remove(table, key, {})] } :
    Returned(call.c, key, 0)

Churn_Add(faulty) ==
  /\ caller = "churn"
  /\ \E key \in ChurnKeys : \E data \in Payloads[key] : Add(key, data, faulty)
  /\ UNCHANGED caller

Churn_Remove(faulty) ==
  /\ caller = "churn"
  /\ \E key \in ChurnKeys : Remove(key, faulty)
  /\ UNCHANGED caller

\* one iteration of the adding loop of the tests: key_i for the next i
Fill_Add(faulty) ==
  /\ caller = "fill"
  /\ \E data \in Payloads[TestKeys[Cardinality(Present) + 1]] :
       Add(TestKeys[Cardinality(Present) + 1], data, faulty)
  /\ caller' = IF \A i \in 1..Len(TestKeys) : model'[TestKeys[i]] # 0
               THEN "drain" ELSE "fill"

\* one iteration of the removing loop of the tests: the first key_i still in
Drain_Remove(faulty) ==
  /\ caller = "drain"
  /\ Present # {}
  /\ Remove(TestKeys[Len(TestKeys) - Cardinality(Present) + 1], faulty)
  /\ UNCHANGED caller

RoundTrip_Add(faulty) ==
  /\ caller = "adding"
  /\ \E key \in ChurnKeys \ Present :
       \E data \in Payloads[key] : Add(key, data, faulty)
  /\ UNCHANGED caller

RoundTrip_Remove(faulty) ==
  /\ caller \in {"adding", "removing"}
  /\ \E key \in ChurnKeys \cap Present : Remove(key, faulty)
  /\ caller' = "removing"

Edge_Add(faulty) ==
  /\ caller = "edge"
  /\ \E key \in KeysOf("edge") :
       \E data \in Payloads[key] : Add(key, data, faulty)
  /\ UNCHANGED caller

Edge_Remove(faulty) ==
  /\ caller = "edge"
  /\ \E key \in KeysOf("edge") : Remove(key, faulty)
  /\ UNCHANGED caller

ChurnAdd == Churn_Add(TRUE)

ChurnRemove == Churn_Remove(TRUE)

FillAdd == Fill_Add(TRUE)

DrainRemove == Drain_Remove(TRUE)

RoundTripAdd == RoundTrip_Add(TRUE)

RoundTripRemove == RoundTrip_Remove(TRUE)

EdgeAdd == Edge_Add(TRUE)

EdgeRemove == Edge_Remove(TRUE)

Next ==
  \/ ChurnAdd \/ ChurnRemove
  \/ FillAdd \/ DrainRemove
  \/ RoundTripAdd \/ RoundTripRemove
  \/ EdgeAdd \/ EdgeRemove

Spec == Init /\ [][Next]_vars

\* the same callers when no allocation request ever fails
ChurnAddNoFail == Churn_Add(FALSE)

ChurnRemoveNoFail == Churn_Remove(FALSE)

FillAddNoFail == Fill_Add(FALSE)

DrainRemoveNoFail == Drain_Remove(FALSE)

RoundTripAddNoFail == RoundTrip_Add(FALSE)

RoundTripRemoveNoFail == RoundTrip_Remove(FALSE)

EdgeAddNoFail == Edge_Add(FALSE)

EdgeRemoveNoFail == Edge_Remove(FALSE)

NextNoFail ==
  \/ ChurnAddNoFail \/ ChurnRemoveNoFail
  \/ FillAddNoFail \/ DrainRemoveNoFail
  \/ RoundTripAddNoFail \/ RoundTripRemoveNoFail
  \/ EdgeAddNoFail \/ EdgeRemoveNoFail

SpecNoFail == Init /\ [][NextNoFail]_vars

----------------------------------------------------------------------------
(* What a caller observes of a table.                                      *)

\* get(k) for every key
Mapping(t) == [key \in Keys |-> hash_table_get(t, key)]

Occupied(t) == { i \in DOMAIN t.buckets : t.buckets[i] # NULL }

\* the payload the duplicate test replaces with
OtherPayload == Len(KeyUniverse) + 1

\* C1: when no allocation fails, every key whose most recent successful
\* operation was add(k, p) is found by get with exactly p, whatever grows,
\* shrinks, displacement swaps and back-shifts happened in between
C1_GetReturnsLastAdded ==
  \A key \in Keys : model[key] # 0 => hash_table_get(table, key) = model[key]

\* a round trip that has grown the table and has begun to remove, with a
\* displaced entry among the keys still in
C1_Witness ==
  /\ caller = "removing"
  /\ table.max_size_shift > HASH_TABLE_INITIAL_SHIFT
  /\ Cardinality(Present) >= 3
  /\ \E i \in Occupied(table) : table.buckets[i].dist_from_des >= 2
  /\ \A key \in Present : hash_table_get(table, key) = model[key]

\* C2: size() is the number of keys added and not removed since, and the
\* number of occupied slots
C2_SizeIsKeyCount ==
  /\ hash_table_get_size(table) = Cardinality(Present)
  /\ hash_table_get_size(table) = Cardinality(Occupied(table))

\* C3: get returns absent for every key that was never added or whose most
\* recent successful operation was remove
C3_AbsentKeysAreAbsent ==
  \A key \in Keys : model[key] = 0 => hash_table_get(table, key) = 0

\* the tests' removing loop under way: keys that were added and are removed
\* since, beside keys still in
C3_Witness ==
  /\ caller = "drain"
  /\ Present # {}
  /\ \E i \in 1..Len(TestKeys) :
       model[TestKeys[i]] = 0 /\ hash_table_get(table, TestKeys[i]) = 0

\* the call left size() and the result of get for every key as they were
Unchanged(t, after) ==
  /\ hash_table_get_size(after) = hash_table_get_size(t)
  /\ Mapping(after) = Mapping(t)

\* add(key, data) on a table that contains key returned call
Replaced(t, call, after, key, data) ==
  /\ call.fails = {} => call.c.ret
  /\ call.c.ret =>
       /\ hash_table_get(after, key) = data
       /\ hash_table_get_size(after) = hash_table_get_size(t)
       /\ \A other \in Keys \ {key} :
            hash_table_get(after, other) = hash_table_get(t, other)
       /\ Cardinality({ i \in Occupied(after) :
                          after.buckets[i].key = key }) = 1

\* C4: add(k, p2) on a table that already contains k returns ok unless an
\* allocation fails, and when it returns ok get(k) is p2, size() and the
\* payload of every other key are as before, and exactly one occupied slot
\* holds k
C4_AddReplaces ==
  \A key \in KeysOf(caller) :
    hash_table_get(table, key) # 0 =>
      \A data \in Payloads[key] \cup {OtherPayload} :
        \A call \in AddCalls(table, key, data) :
          Replaced(table, call, Store(call.c), key, data)

\* a table in which a displaced key is given another payload
C4_Witness ==
  \E key \in KeysOf(caller) :
    /\ hash_table_get(table, key) \notin {0, OtherPayload}
    /\ \E i \in Occupied(table) :
         table.buckets[i].key = key /\ table.buckets[i].dist_from_des > 0
    /\ hash_table_add(table, key, OtherPayload, {}).ret
    /\ hash_table_get(Store(hash_table_add(table, key, OtherPayload, {})),
                      key) = OtherPayload

\* C5: every occupied slot i holds an entry whose home index at the current
\* max_size_shift plus its dist_from_des is i, and whose dist_from_des is
\* below max_size_shift
C5_Placement ==
  \A i \in Occupied(table) :
    /\ fibonacci_table[table.buckets[i].hash][table.max_size_shift]
         + table.buckets[i].dist_from_des = i
    /\ table.buckets[i].dist_from_des < table.max_size_shift

\* a grown table in a round trip that has begun to remove, with entries
\* still displaced by two or more
C5_Witness ==
  /\ caller = "removing"
  /\ table.max_size_shift > HASH_TABLE_INITIAL_SHIFT
  /\ \E i \in Occupied(table) : table.buckets[i].dist_from_des >= 2
  /\ \E i \in Occupied(table) : table.buckets[i].dist_from_des = 0

\* C6: an add that returns failure leaves size() and the result of get for
\* every key, its own included, as they were before the call
C6_FailedAddChangesNothing ==
  \A key \in KeysOf(caller) : \A data \in Payloads[key] :
    \A call \in AddCalls(table, key, data) :
      ~call.c.ret => Unchanged(table, Store(call.c))

\* an add whose walk exhausted the window and displaced entries on its way,
\* and whose grow then failed to allocate
C6_Witness ==
  \E key \in KeysOf(caller) : \E data \in Payloads[key] :
    \E call \in AddCalls(table, key, data) :
      /\ ~call.c.ret
      /\ call.c.overflows > 0
      /\ \E i \in Occupied(table) :
           hash_table_should_replace_entry(
             [dist_from_des |-> i - hash_table_get_position(table, key)],
             table.buckets[i])

\* add(key, data) took its full effect
AddEffect(t, after, key, data) ==
  /\ Mapping(after) = [Mapping(t) EXCEPT ![key] = data]
  /\ hash_table_get_size(after) =
       hash_table_get_size(t) + (IF hash_table_get(t, key) = 0 THEN 1 ELSE 0)

\* remove(key) took its full effect
RemoveEffect(t, after, key) ==
  /\ Mapping(after) = [Mapping(t) EXCEPT ![key] = 0]
  /\ hash_table_get_size(after) =
       hash_table_get_size(t) - (IF hash_table_get(t, key) = 0 THEN 0 ELSE 1)

\* C7: under any pattern of allocation failures, a call of add or remove
\* either takes its full effect or leaves the result of get for every key
\* and size() as they were
C7_AllOrNothing ==
  \A key \in KeysOf(caller) :
    /\ \A data \in Payloads[key] :
         \A call \in AddCalls(table, key, data) :
           \/ AddEffect(table, Store(call.c), key, data)
           \/ Unchanged(table, Store(call.c))
    /\ \A call \in RemoveCalls(table, key) :
         \/ RemoveEffect(table, Store(call.c), key)
         \/ Unchanged(table, Store(call.c))

\* C8: when no allocation fails, add returns ok on every reachable table
\* and for every key
C8_AddSucceeds ==
  \A key \in Keys : \A data \in Payloads[key] :
    hash_table_add(table, key, data, {}).ret

\* an add whose walk exhausts the window: the table grows and the add
\* returns ok
C8_Witness ==
  \E key \in KeysOf(caller) : \E data \in Payloads[key] :
    /\ hash_table_add(table, key, data, {}).overflows > 0
    /\ hash_table_add(table, key, data, {}).ret

\* C9: remove(k) of a key that is not in returns absent, and leaves size()
\* and the result of get for every key as they were
C9_RemoveAbsent ==
  \A key \in KeysOf(caller) :
    model[key] = 0 =>
      \A call \in RemoveCalls(table, key) :
        ~call.c.ret /\ Unchanged(table, Store(call.c))

\* C10: in a round trip every remove of a key that is still in returns ok
\* unless an allocation fails, and once all keys are removed size() is 0,
\* get returns absent for every key and max_size_shift is at least
\* HASH_TABLE_INITIAL_SHIFT
C10_RoundTrip ==
  caller \in {"adding", "removing", "fill", "drain"} =>
    /\ \A key \in KeysOf(caller) \cap Present :
         hash_table_remove(table, key, {}).ret
    /\ (caller \in {"removing", "drain"} /\ Present = {}) =>
         /\ hash_table_get_size(table) = 0
         /\ \A key \in Keys : hash_table_get(table, key) = 0
         /\ table.max_size_shift >= HASH_TABLE_INITIAL_SHIFT

\* C11: the table hash_table_create returns has max_size_shift 4, max_size
\* 16, 20 buckets that are all empty and size() 0; get returns absent for
\* every key, and remove of every key returns absent under every pattern of
\* allocation failures and leaves the table as it is
C11_CreatedTable ==
  Init =>
    /\ table.max_size_shift = 4
    /\ table.max_size = 16
    /\ DOMAIN table.buckets = 0..19
    /\ \A i \in DOMAIN table.buckets : table.buckets[i] = NULL
    /\ hash_table_get_size(table) = 0
    /\ \A key \in Keys :
         /\ hash_table_get(table, key) = 0
         /\ \A call \in RemoveCalls(table, key) :
              ~call.c.ret /\ Store(call.c) = table

\* the table of the tests' loop right after hash_table_create, before its
\* first add
C11_Witness ==
  /\ caller = "fill"
  /\ table = hash_table_create
  /\ Present = {}
  /\ \A key \in KeysOf(caller) : ~hash_table_remove(table, key, {}).ret

\* C12: whenever a walk of hash_table_insert exhausts the window, in add, in
\* a rehash or in a retry, under any pattern of allocation failures, the
\* unwinding leaves the array, dist_from_des of every entry in it included,
\* exactly as the walk found it, and it stops with the inserted entry in
\* hand: it never reads an empty bucket and never stops at index 0 with
\* another entry in hand
C12_UnwindRestores ==
  \A key \in KeysOf(caller) :
    /\ \A data \in Payloads[key] :
         \A call \in AddCalls(table, key, data) :
           ~call.c.skewed /\ ~call.c.stray
    /\ \A call \in RemoveCalls(table, key) :
         ~call.c.skewed /\ ~call.c.stray

\* an add whose walk begins at index 0, swaps the inserted entry into the
\* array and exhausts the window, so that the unwinding has swaps to undo
C12_Witness ==
  \E key \in KeysOf(caller) \ Present : \E data \in Payloads[key] :
    LET c == [Load(table) EXCEPT !.ret = TRUE]
        entry == [key |-> key, hash |-> djb2_table[key], data |-> data,
                  dist_from_des |-> 0, addr |-> NEW_ADDR]
        w == insert_walk(c, entry, entry,
                         fibonacci_table[entry.hash][c.max_size_shift], 0)
    IN  /\ ~hash_table_should_resize_up_factor(c)
        /\ hash_table_get_position(c, key) = 0
        /\ ~hash_table_is_next_found(w.c, w.probe_count)
        /\ w.c.buckets # c.buckets
        /\ hash_table_unwind_insertion_changes(
             w.c, entry, w.rich, w.position - 1).buckets = c.buckets
        /\ hash_table_add(table, key, data, {}).overflows > 0

\* a one-step grow of the table t, when no allocation fails
Grown(t) == hash_table_resize(Load(t), HASH_TABLE_RESIZE_INCREMENT, {})

\* C13: while a grow rehashes, no re-insertion exhausts the window of the
\* new array, so that no resize begins inside the rehash of a grow: not in
\* any add or remove on a reachable table, under any pattern of allocation
\* failures, and not in a grow of any reachable table, which makes one
\* allocation request and leaves every entry within the new window
C13_GrowRehashFits ==
  /\ \A key \in KeysOf(caller) :
       /\ \A data \in Payloads[key] :
            \A call \in AddCalls(table, key, data) :
              call.c.nested_in_grow = 0
       /\ \A call \in RemoveCalls(table, key) :
            call.c.nested_in_grow = 0
  /\ Grown(table).overflows = 0
  /\ Grown(table).allocs = 1
  /\ Grown(table).max_size_shift = table.max_size_shift + 1
  /\ Grown(table).curr_size = hash_table_get_size(table)
  /\ \A i \in Occupied(Grown(table)) :
       Grown(table).buckets[i].dist_from_des < Grown(table).max_size_shift

\* an add that grows a table in which an entry sits at the end of its
\* window, and the rehash re-inserts every entry without a resize
C13_Witness ==
  \E key \in KeysOf(caller) : \E data \in Payloads[key] :
    /\ \E i \in Occupied(table) :
         table.buckets[i].dist_from_des = table.max_size_shift - 1
    /\ hash_table_add(table, key, data, {}).ret
    /\ hash_table_add(table, key, data, {}).max_size_shift
         > table.max_size_shift
    /\ hash_table_add(table, key, data, {}).nested_in_grow = 0
    /\ hash_table_add(table, key, data, {}).curr_size
         = hash_table_get_size(table) + 1

\* C14: every resize that reports success leaves max_size_shift exactly
\* shift_amount away from where it found it, one up for a grow and one down
\* for a shrink, in every add and remove call; and when the shrink that
\* remove requests reports success, the table is smaller after the call
C14_ResizeStepsOne ==
  \A key \in KeysOf(caller) :
    /\ \A data \in Payloads[key] :
         \A call \in AddCalls(table, key, data) : call.c.misstepped = 0
    /\ \A call \in RemoveCalls(table, key) :
         /\ call.c.misstepped = 0
         /\ (hash_table_should_resize_down_factor(Load(table))
               /\ 1 \notin call.fails) =>
              call.c.max_size_shift = table.max_size_shift - 1

\* C15 as stated: in one add the walk is tried again at most once, and at
\* most one grow follows an exhausted window
C15_AtMostOneRetry ==
  \A key \in KeysOf(caller) : \A data \in Payloads[key] :
    \A call \in AddCalls(table, key, data) :
      call.c.walks <= 2 /\ call.c.overflows - call.c.nested <= 1

\* the grow that add's load-factor check requests, in steps
PreCheckGrow(t) ==
  IF hash_table_should_resize_up_factor(Load(t))
  THEN HASH_TABLE_RESIZE_INCREMENT ELSE 0

\* C15, amended: in one add every exhausted window of a walk of the call is
\* followed by one request of a one-step grow, and every such grow that
\* succeeds by one more walk, as often as the window is exhausted again; an
\* add that returns ok has walked once more than it has grown for an
\* exhausted window and leaves max_size_shift higher by the number of its
\* grows
C15_RetryAfterEachGrow ==
  \A key \in KeysOf(caller) : \A data \in Payloads[key] :
    \A call \in AddCalls(table, key, data) :
      /\ call.c.walks \in {0, call.c.regrown + 1}
      /\ call.c.overflows - call.c.nested =
           call.c.regrown
             + (IF call.c.walks > 0 /\ ~call.c.ret THEN 1 ELSE 0)
      /\ call.c.ret =>
           /\ call.c.walks = call.c.regrown + 1
           /\ call.c.max_size_shift =
                table.max_size_shift + PreCheckGrow(table) + call.c.regrown

\* an add that returns ok after two exhausted windows and two grows
C15_Witness ==
  \E key \in KeysOf(caller) : \E data \in Payloads[key] :
    /\ hash_table_add(table, key, data, {}).ret
    /\ hash_table_add(table, key, data, {}).regrown = 2
    /\ hash_table_add(table, key, data, {}).walks = 3
    /\ hash_table_add(table, key, data, {}).max_size_shift
         = table.max_size_shift + 2

\* remove of any key the caller passes, right after a call left the table t
\* at max_size_shift: it does not leave the table smaller
NoShrinkAfter(t) ==
  \A key \in KeysOf(caller) :
    hash_table_remove(t, key, {}).max_size_shift >= t.max_size_shift

\* add of any key the caller passes, right after a call left the table t:
\* it does not leave the table larger
NoGrowAfter(t) ==
  \A key \in KeysOf(caller) : \A data \in Payloads[key] :
    hash_table_add(t, key, data, {}).max_size_shift <= t.max_size_shift

\* C16: when no allocation fails, a remove that immediately follows an add
\* that grew the table does not shrink it, and an add that immediately
\* follows a remove that shrank the table does not grow it
C16_NoThrash ==
  \A key \in KeysOf(caller) :
    /\ \A data \in Payloads[key] :
         hash_table_add(table, key, data, {}).max_size_shift
             > table.max_size_shift
           => NoShrinkAfter(Store(hash_table_add(table, key, data, {})))
    /\ hash_table_remove(table, key, {}).max_size_shift
           < table.max_size_shift
         => NoGrowAfter(Store(hash_table_remove(table, key, {})))

\* C17: when the shrink that remove's check requests fails to allocate,
\* remove returns failure after that one request, whatever the key, and
\* max_size, max_size_shift, the array, curr_size and the result of get for
\* every key are as before the call
C17_FailedShrinkChangesNothing ==
  hash_table_should_resize_down_factor(Load(table)) =>
    \A key \in Keys :
      /\ ~hash_table_remove(table, key, {1}).ret
      /\ hash_table_remove(table, key, {1}).allocs = 1
      /\ Store(hash_table_remove(table, key, {1})) = table
      /\ Mapping(Store(hash_table_remove(table, key, {1}))) = Mapping(table)

\* a grown table with displaced entries, few enough for the shrink check to
\* pass, and a key in it whose remove fails because the shrink does
C17_Witness ==
  /\ hash_table_should_resize_down_factor(Load(table))
  /\ \E i \in Occupied(table) : table.buckets[i].dist_from_des >= 2
  /\ \E key \in Present :
       /\ hash_table_get(table, key) # 0
       /\ hash_table_remove(table, key, {}).ret
       /\ ~hash_table_remove(table, key, {1}).ret

\* C18: between calls max_size is 2 ^ max_size_shift, max_size_shift is at
\* least HASH_TABLE_INITIAL_SHIFT, whatever shrinks happened, and the array
\* has exactly max_size + max_size_shift buckets
C18_Geometry ==
  /\ table.max_size = 2 ^ table.max_size_shift
  /\ table.max_size_shift >= HASH_TABLE_INITIAL_SHIFT
  /\ DOMAIN table.buckets = 0..(table.max_size + table.max_size_shift - 1)

\* the tests' removing loop, which began on a table grown for its 13 keys,
\* after the shrink back to the initial shift, with keys still in
C18_Witness ==
  /\ caller = "drain"
  /\ Present # {}
  /\ table.max_size_shift = HASH_TABLE_INITIAL_SHIFT
  /\ table.max_size = 16
  /\ DOMAIN table.buckets = 0..19
  /\ hash_table_get_size(table) >= 1

\* C19: between calls curr_size is at most 0.75 * max_size
C19_LoadFactor ==
  table.curr_size * LOAD_FACTOR_INCREASE_DEN
    <= table.max_size * LOAD_FACTOR_INCREASE_NUM

\* the tests' adding loop with 12 keys in 16 buckets, exactly 0.75 *
\* max_size, where the next add has to grow the table first and does
C19_Witness ==
  /\ caller = "fill"
  /\ table.max_size = 16
  /\ hash_table_get_size(table) = 12
  /\ \E data \in Payloads[TestKeys[13]] :
       /\ hash_table_add(table, TestKeys[13], data, {}).ret
       /\ hash_table_add(table, TestKeys[13], data, {}).curr_size = 13
       /\ hash_table_add(table, TestKeys[13], data, {}).max_size = 32

\* C20: every bucket index that get, add (its walk and its unwind), remove
\* (its lookup and its back-shift) and a rehash read or write lies in
\* 0 .. max_size + max_size_shift - 1, the array that was allocated: a home
\* bucket is below max_size, a walk goes upwards from it by at most
\* max_size_shift steps, so that it neither wraps nor passes the end, also
\* from a home among the last buckets, and no call makes an access outside
C20_InBounds ==
  /\ DOMAIN table.buckets = 0..(table.max_size + table.max_size_shift - 1)
  /\ \A key \in Keys :
       /\ hash_table_get_position(table, key) \in 0..(table.max_size - 1)
       /\ HASH_TABLE_ITERATE_TO_NEXT(
            table, key, hash_table_get_position(table, key), 0).position
            = hash_table_get_position(table, key)
                + HASH_TABLE_ITERATE_TO_NEXT(
                    table, key, hash_table_get_position(table, key),
                    0).probe_count
       /\ HASH_TABLE_ITERATE_TO_NEXT(
            table, key, hash_table_get_position(table, key), 0).position
            \in DOMAIN table.buckets
  /\ \A key \in KeysOf(caller) :
       /\ \A data \in Payloads[key] :
            \A call \in AddCalls(table, key, data) : ~call.c.outside
       /\ \A call \in RemoveCalls(table, key) : ~call.c.outside

\* four keys whose home is the last bucket, 15, fill the buckets 15 .. 18
\* of the 20: adding the fifth exhausts the window there, unwinds and grows
\* the table, where the five fill 31 .. 35 of the 37 buckets, and removing
\* one shifts the entries behind it back
C20_Witness ==
  /\ caller = "edge"
  /\ table.max_size_shift = HASH_TABLE_INITIAL_SHIFT
  /\ \A i \in 15..18 : table.buckets[i] # NULL
  /\ \E key \in KeysOf("edge") \ Present :
       \E data \in Payloads[key] :
         /\ hash_table_add(table, key, data, {}).ret
         /\ hash_table_add(table, key, data, {}).overflows = 1
         /\ ~hash_table_add(table, key, data, {}).outside
         /\ hash_table_add(table, key, data, {}).max_size = 32
         /\ \A i \in 31..35 :
              hash_table_add(table, key, data, {}).buckets[i] # NULL
  /\ \E key \in Present :
       /\ hash_table_remove(table, key, {}).ret
       /\ ~hash_table_remove(table, key, {}).outside
       /\ hash_table_remove(table, key, {}).buckets[17] # NULL
       /\ hash_table_remove(table, key, {}).buckets[18] = NULL

\* C21: between calls no two occupied buckets hold entries with equal keys,
\* also after an add of a key that is in the table and whose walk passes
\* other entries before it reaches the key, and after any resize
C21_UniqueKeys ==
  \A i \in Occupied(table) : \A j \in Occupied(table) :
    table.buckets[i].key = table.buckets[j].key => i = j

\* a grown table with a key two or more buckets behind its home: adding
\* that key again walks past the entries before it, replaces the payload
\* in the same bucket and leaves the number of entries as it was
C21_Witness ==
  /\ table.max_size_shift > HASH_TABLE_INITIAL_SHIFT
  /\ \E i \in Occupied(table) :
       /\ table.buckets[i].dist_from_des >= 2
       /\ table.buckets[i].key \in KeysOf(caller)
       /\ \E data \in Payloads[table.buckets[i].key] :
            /\ data # table.buckets[i].data
            /\ hash_table_add(table, table.buckets[i].key, data, {}).ret
            /\ hash_table_add(table, table.buckets[i].key, data,
                              {}).curr_size = table.curr_size
            /\ hash_table_add(table, table.buckets[i].key, data,
                              {}).buckets[i].key = table.buckets[i].key
            /\ hash_table_add(table, table.buckets[i].key, data,
                              {}).buckets[i].data = data
            /\ Occupied(hash_table_add(table, table.buckets[i].key, data,
                                       {})) = Occupied(table)

\* C22: after every add and every remove there is no empty bucket between
\* an entry and its home: for an occupied bucket i whose entry has
\* dist_from_des d, the buckets i - d .. i are all occupied; so a key that
\* get reports absent, because its walk met an empty bucket or used up the
\* window, is in no bucket
C22_NoGap ==
  /\ \A i \in Occupied(table) :
       \A j \in (i - table.buckets[i].dist_from_des)..i :
         j \in Occupied(table)
  /\ \A key \in Keys :
       hash_table_get(table, key) = 0
         => \A i \in Occupied(table) : table.buckets[i].key # key

\* three or more entries in a row behind one home, the first at its home:
\* removing the first moves each of the others one bucket back, which
\* leaves them without a gap, and the removed key's walk then meets the
\* other entries and reports absent
C22_Witness ==
  \E i \in Occupied(table) :
    /\ table.buckets[i].dist_from_des = 0
    /\ table.buckets[i].key \in KeysOf(caller)
    /\ {i + 1, i + 2} \subseteq Occupied(table)
    /\ table.buckets[i + 1].dist_from_des = 1
    /\ table.buckets[i + 2].dist_from_des = 2
    /\ hash_table_remove(table, table.buckets[i].key, {}).ret
    /\ hash_table_remove(table, table.buckets[i].key, {}).max_size
         = table.max_size
    /\ hash_table_remove(table, table.buckets[i].key, {}).buckets[i].key
         = table.buckets[i + 1].key
    /\ hash_table_remove(table, table.buckets[i].key,
                         {}).buckets[i + 1].dist_from_des = 1
    /\ hash_table_remove(table, table.buckets[i].key, {}).buckets[i + 2]
         = NULL
    /\ hash_table_get(Store(hash_table_remove(table, table.buckets[i].key,
                                              {})),
                      table.buckets[i].key) = 0

\* the home bucket of the entry in bucket i of t
HomeOf(t, i) == fibonacci_table[t.buckets[i].hash][t.max_size_shift]

\* C23: between calls the home buckets of the entries do not decrease along
\* the array: for occupied buckets i and i + 1 the dist_from_des of the
\* entry in i + 1 is at most that of the entry in i plus one, and the homes
\* of any two entries are in the order of their buckets
C23_HomesInOrder ==
  /\ \A i \in Occupied(table) :
       (i + 1) \in Occupied(table)
         => table.buckets[i + 1].dist_from_des
              <= table.buckets[i].dist_from_des + 1
  /\ \A i \in Occupied(table) : \A j \in Occupied(table) :
       i < j => HomeOf(table, i) <= HomeOf(table, j)

\* an add whose walk meets, behind entries of its own home, an entry of a
\* later home that is closer to its home: the new entry takes that bucket
\* and the entry it displaced goes one bucket on, behind its own home
C23_Witness ==
  \E key \in KeysOf(caller) \ Present : \E data \in Payloads[key] :
    \E i \in Occupied(table) :
      /\ hash_table_add(table, key, data, {}).ret
      /\ hash_table_add(table, key, data, {}).max_size = table.max_size
      /\ hash_table_add(table, key, data, {}).buckets[i].key = key
      /\ hash_table_add(table, key, data, {}).buckets[i].dist_from_des >= 1
      /\ hash_table_add(table, key, data, {}).buckets[i + 1].key
           = table.buckets[i].key
      /\ hash_table_add(table, key, data, {}).buckets[i + 1].dist_from_des
           = table.buckets[i].dist_from_des + 1
      /\ hash_table_get_position(table, key) < HomeOf(table, i)

====
